---------------------------- MODULE Spec2Model ----------------------------
(* Model of the deploy module of sc-deployer (deployer/scripts/deploy.py):   *)
(* the dependency graph functions (cycle validation, cascade, topological    *)
(* sort) and the publish / deploy / terminate commands with their state      *)
(* document and the external provisioning service.                           *)
EXTENDS Integers, Sequences, FiniteSets, TLC

(***************************************************************************)
(* Names and bounds                                                        *)
(***************************************************************************)

\* The products of the catalog of the spec's scenario, in catalog.yaml order
\* (dict iteration order of ctx.catalog["products"]).
ProductOrder == <<"networking", "database", "api">>

Products == {ProductOrder[i] : i \in 1..Len(ProductOrder)}

\* A name a dependency list may carry that is no product of the catalog.
Unknown == "unknown"

Names == Products \cup {Unknown}

\* Bound: total number of entries over all dependency lists of a catalog
\* drawn for the graph functions.
MaxDepEntries == 4

\* Bound: number of commits (source revisions) the repository may reach.
MaxCommits == 2

\* Bound: length of the file names drawn for compute_product_hash.
MaxNameLen == 3

\* Bound: length of the file contents drawn for compute_product_hash.
MaxContentLen == 1

\* Bound: seconds one describe_record call may take.
MaxPollSeconds == 2

\* Bound: number of commands run in one behaviour.
MaxCommands == 3

VARIABLES
  catalog,          \* ctx.catalog["products"]: name -> [dependencies, parameter_mapping, outputs]
  call,             \* the last application of a graph function: its arguments and result
  use_git,          \* is_git_repo()
  head,             \* the commit HEAD names (source-control mode)
  tree,             \* per product: the revision that last changed the files under its path
  now,              \* the clock generate_version reads; it ticks when a command starts
  bootstrap_state,  \* whether the environment holds its bootstrap record (bucket, products)
  state,            \* ctx.state of the running command: the environment's product records
  disk,             \* the state document on disk: the environment's product records
  pp,               \* external service: id of the provisioned instance named <env>-<product>, 0 if none
  next_id,          \* external service: the id the next created instance gets
  run               \* the command being run (or last run): position, batch and what it did

(***************************************************************************)
(* Sequence and set helpers                                                *)
(***************************************************************************)

\* No graph function has been applied.
NoCall == [fn |-> "none", arg |-> {}, raised |-> FALSE,
           order |-> <<>>, set |-> {}, errors |-> <<>>]

Range(s) == {s[i] : i \in 1..Len(s)}

\* Variant of Reverse that keeps the order.
Reverse_kept(s) == s

\* list.reverse()
Reverse(s) == [i \in 1..Len(s) |-> s[Len(s) + 1 - i]]

\* All enumerations (without repetition) of the set S: the orders in which
\* iterating a Python set may yield its elements.
Perms(S) == {s \in [1..Cardinality(S) -> S] : Range(s) = S}

RECURSIVE CountIn(_, _)
\* Number of entries of the list s that are members of S (repeats counted).
CountIn(s, S) ==
  IF s = <<>> THEN 0
  ELSE (IF Head(s) \in S THEN 1 ELSE 0) + CountIn(Tail(s), S)

Deps(name) == catalog[name].dependencies

(***************************************************************************)
(* validate_circular_dependencies                                          *)
(***************************************************************************)

RECURSIVE has_cycle(_, _, _)
RECURSIVE has_cycle_from(_, _, _, _)

\* The for loop of has_cycle over the dependency list of name, from entry i.
\* Returns the verdict together with the (mutated) visited and path sets.
has_cycle_from(name, i, visited, path) ==
  IF i > Len(Deps(name))
  THEN [found |-> FALSE, visited |-> visited, path |-> path \ {name}]
  ELSE LET dep == Deps(name)[i] IN
       IF dep \notin DOMAIN catalog
       THEN has_cycle_from(name, i + 1, visited, path)
       ELSE IF dep \in path
       THEN [found |-> TRUE, visited |-> visited, path |-> path]
       ELSE IF dep \notin visited
       THEN LET r == has_cycle(dep, visited, path) IN
            IF r.found THEN r
            ELSE has_cycle_from(name, i + 1, r.visited, r.path)
       ELSE has_cycle_from(name, i + 1, visited, path)

has_cycle(name, visited, path) ==
  has_cycle_from(name, 1, visited \cup {name}, path \cup {name})

RECURSIVE validate_loop_first_only(_, _, _)
\* Variant of validate_loop that stops at the first cycle it finds.
validate_loop_first_only(i, visited, errors) ==
  IF i > Len(ProductOrder) THEN errors
  ELSE LET name == ProductOrder[i] IN
       IF name \notin DOMAIN catalog \/ name \in visited
       THEN validate_loop_first_only(i + 1, visited, errors)
       ELSE LET r == has_cycle(name, visited, {}) IN
            IF r.found THEN Append(errors, name)
            ELSE validate_loop_first_only(i + 1, r.visited, errors)

RECURSIVE validate_loop(_, _, _)
\* The loop over the products in catalog order; errors holds the product
\* named by each "Circular dependency detected involving ..." message.
validate_loop(i, visited, errors) ==
  IF i > Len(ProductOrder) THEN errors
  ELSE LET name == ProductOrder[i] IN
       IF name \notin DOMAIN catalog \/ name \in visited
       THEN validate_loop(i + 1, visited, errors)
       ELSE LET r == has_cycle(name, visited, {}) IN
            validate_loop(i + 1, r.visited,
                          IF r.found THEN Append(errors, name) ELSE errors)

validate_circular_dependencies == validate_loop(1, {}, <<>>)

(***************************************************************************)
(* get_affected_products                                                   *)
(***************************************************************************)

\* The reverse dependency map: dependents[dep] lists the products that name
\* dep in their dependency list (only keys of the catalog get a list).
dependents_of(dep) ==
  IF dep \in DOMAIN catalog
  THEN {name \in DOMAIN catalog : dep \in Range(Deps(name))}
  ELSE {}

RECURSIVE bfs_cascade_direct_only(_, _)
\* Variant of bfs_cascade that adds the dependents it finds but never
\* enqueues them.
bfs_cascade_direct_only(queue, affected) ==
  IF queue = <<>> THEN affected
  ELSE bfs_cascade_direct_only(Tail(queue),
                               affected \cup dependents_of(Head(queue)))

RECURSIVE bfs_cascade(_, _)
\* The BFS loop: queue is the deque, affected the set built so far.
bfs_cascade(queue, affected) ==
  IF queue = <<>> THEN affected
  ELSE LET product == Head(queue)
           new     == dependents_of(product) \ affected
           newSeq  == SelectSeq(ProductOrder, LAMBDA n : n \in new)
       IN bfs_cascade(Tail(queue) \o newSeq, affected \cup new)

\* Variant of get_affected_products without the cascade.
get_affected_products_changed_only(changedSeq) == Range(changedSeq)

\* changedSeq: the set changed in the order deque(changed) enumerates it.
get_affected_products(changedSeq) ==
  bfs_cascade(changedSeq, Range(changedSeq))

(***************************************************************************)
(* topological_sort                                                        *)
(***************************************************************************)

\* in_degree after the first loop: one per entry of the dependency list
\* that is in products (a repeated entry counts each time).
initial_in_degree(products) ==
  [p \in products |-> CountIn(Deps(p), products)]

RECURSIVE decrement_dependents(_, _, _, _, _)
\* The inner for loop of the while loop: for each name of products (in the
\* iteration order iter), decrement when product is in its dependency list.
decrement_dependents(product, iter, i, in_degree, queue) ==
  IF i > Len(iter) THEN [in_degree |-> in_degree, queue |-> queue]
  ELSE LET name == iter[i] IN
       IF product \in Range(Deps(name))
       THEN LET d == in_degree[name] - 1 IN
            decrement_dependents(product, iter, i + 1,
                                 [in_degree EXCEPT ![name] = d],
                                 IF d = 0 THEN Append(queue, name) ELSE queue)
       ELSE decrement_dependents(product, iter, i + 1, in_degree, queue)

RECURSIVE kahn_loop(_, _, _, _)
kahn_loop(iter, in_degree, queue, order) ==
  IF queue = <<>> THEN order
  ELSE LET product == Head(queue)
           r == decrement_dependents(product, iter, 1, in_degree, Tail(queue))
       IN kahn_loop(iter, r.in_degree, r.queue, Append(order, product))

\* Variant of order_complete that accepts every order.
order_complete_always(order, products) == TRUE

\* The length test that turns an incomplete order into the ValueError.
order_complete(order, products) == Len(order) = Cardinality(products)

\* iter: the set products in the order Python iterates it.
\* Result: raised (the ValueError) or the returned order.
topological_sort(iter) ==
  LET products == Range(iter)
      in_degree == initial_in_degree(products)
      queue == SelectSeq(iter, LAMBDA p : in_degree[p] = 0)
      order == kahn_loop(iter, in_degree, queue, <<>>)
  IN IF order_complete(order, products)
     THEN [raised |-> FALSE, order |-> order]
     ELSE [raised |-> TRUE, order |-> <<>>]

(***************************************************************************)
(* Dictionaries (state records with optional keys)                         *)
(***************************************************************************)

\* dict.get(key, default)
Get(rec, key, default) == IF key \in DOMAIN rec THEN rec[key] ELSE default

\* dict.update(upd)
Update(rec, upd) ==
  [k \in DOMAIN rec \cup DOMAIN upd |->
     IF k \in DOMAIN upd THEN upd[k] ELSE rec[k]]

\* dict.pop(key, None) for each key of keys
Pop(rec, keys) == [k \in DOMAIN rec \ keys |-> rec[k]]

\* The empty dict {}.
EmptyDict == <<>>

\* env_state.get(name, {})
ProductState(st, name) == Get(st, name, EmptyDict)

\* The value get_current_commit returns outside a repository: "".
EmptyStr == 0

\* A value is truthy: the key is there and holds neither "" nor None.
Truthy(rec, key) == key \in DOMAIN rec /\ rec[key] # EmptyStr

(***************************************************************************)
(* The catalog of the commands: networking <- database                     *)
(***************************************************************************)

\* "networking.VpcId" as the character groups split(".", 1) works on.
ChainCatalog ==
  [networking |-> [dependencies |-> <<>>,
                   parameter_mapping |-> EmptyDict,
                   outputs |-> {"VpcId"}],
   database   |-> [dependencies |-> <<"networking">>,
                   parameter_mapping |-> [VpcId |-> <<"networking", ".", "VpcId">>],
                   outputs |-> {"DbEndpoint"}]]

DeployCatalogs == {ChainCatalog}

(***************************************************************************)
(* Parameter mappings                                                      *)
(***************************************************************************)

\* "." in source
HasDot(source) == \E i \in 1..Len(source) : source[i] = "."

FirstDot(source) ==
  CHOOSE i \in 1..Len(source) :
    source[i] = "." /\ \A j \in 1..(i - 1) : source[j] # "."

\* source.split(".", 1): the text before the first dot and the text after.
SplitSource(source) ==
  [dep_name    |-> SubSeq(source, 1, FirstDot(source) - 1),
   output_name |-> SubSeq(source, FirstDot(source) + 1, Len(source))]

\* The product a split name denotes, if it is a key of the catalog.
IsProduct(dep_name) == \E q \in DOMAIN catalog : dep_name = <<q>>

ProductOf(dep_name) == CHOOSE q \in DOMAIN catalog : dep_name = <<q>>

\* validate_output_param_compatibility: the (product, parameter) pairs that
\* get an error.
validate_output_param_compatibility ==
  {<<name, param>> \in
      UNION {{name} \X DOMAIN catalog[name].parameter_mapping : name \in DOMAIN catalog} :
     LET source == catalog[name].parameter_mapping[param] IN
     \/ ~HasDot(source)
     \/ ~IsProduct(SplitSource(source).dep_name)
     \/ ProductOf(SplitSource(source).dep_name) \notin Range(Deps(name))
     \/ ~\E o \in catalog[ProductOf(SplitSource(source).dep_name)].outputs :
            SplitSource(source).output_name = <<o>>}

\* validate_bootstrap: the environment has a bootstrap record naming every
\* catalog product.
validate_bootstrap == IF bootstrap_state THEN {} ELSE {"not bootstrapped"}

\* cmd_validate: TRUE when no validator reports an error.
cmd_validate ==
  /\ validate_circular_dependencies = <<>>
  /\ validate_output_param_compatibility = {}
  /\ validate_bootstrap = {}

\* Variant of resolve_parameters that binds a missing output to the empty
\* string and never raises.
resolve_parameters_defaulting(st, product_name) ==
  [raised |-> FALSE,
   resolved |-> [param \in DOMAIN catalog[product_name].parameter_mapping |->
                   EmptyStr]]

\* resolve_parameters(ctx, product_name) on the in-memory state st:
\* raised, or the resolved mapping.
resolve_parameters(st, product_name) ==
  LET mappings == catalog[product_name].parameter_mapping
      dep_outputs(param) ==
        LET dep_name == SplitSource(mappings[param]).dep_name IN
        IF IsProduct(dep_name)
        THEN Get(ProductState(st, ProductOf(dep_name)), "outputs", EmptyDict)
        ELSE EmptyDict
      out_key(param) ==
        LET output_name == SplitSource(mappings[param]).output_name IN
        IF \E o \in DOMAIN dep_outputs(param) : output_name = <<o>>
        THEN {o \in DOMAIN dep_outputs(param) : output_name = <<o>>}
        ELSE {}
  IN IF \E param \in DOMAIN mappings : out_key(param) = {}
     THEN [raised |-> TRUE, resolved |-> EmptyDict]
     ELSE [raised |-> FALSE,
           resolved |-> [param \in DOMAIN mappings |->
                           dep_outputs(param)[CHOOSE o \in out_key(param) : TRUE]]]

(***************************************************************************)
(* Source tracking and change detection                                    *)
(***************************************************************************)

\* get_current_commit(): HEAD in a repository, "" outside one.
get_current_commit == IF use_git THEN head ELSE EmptyStr

\* compute_product_hash(path): the digest of the files under the path,
\* here the revision of their last change (one digest per content).
compute_product_hash(name) == tree[name]

\* git diff --name-only last_commit HEAD -- path prints something: a commit
\* after last_commit changed a file under the path.
diff_not_empty(name, last_commit) == tree[name] > last_commit

\* The byte values file names and file contents are made of.
Bytes == {1, 2}

\* The byte strings of length lo..hi.
ByteStrings(lo, hi) == UNION {[1..k -> Bytes] : k \in lo..hi}

\* s sorts before t: the order sorted() puts the relative paths in.
PathLess(s, t) ==
  \E k \in 0..Len(s) :
    /\ k <= Len(t)
    /\ \A i \in 1..k : s[i] = t[i]
    /\ \/ k = Len(s) /\ k < Len(t)
       \/ k < Len(s) /\ k < Len(t) /\ s[k + 1] < t[k + 1]

\* sorted(product_path.rglob("*")) for a directory dir (relative path ->
\* content) that holds files only.
sorted_files(dir) ==
  CHOOSE files \in Perms(DOMAIN dir) :
    \A i, j \in 1..Len(files) : i < j => PathLess(files[i], files[j])

RECURSIVE hasher_updates(_, _, _)
\* The bytes the loop feeds to the hasher from the i-th file on: for each
\* file its relative path, then its content.
hasher_updates(files, dir, i) ==
  IF i > Len(files) THEN <<>>
  ELSE files[i] \o dir[files[i]] \o hasher_updates(files, dir, i + 1)

\* compute_product_hash(product_path) for the directory content dir; the
\* digest is taken as collision-free, so it stands for the byte stream it
\* was fed.
compute_product_hash_of(dir) == hasher_updates(sorted_files(dir), dir, 1)

\* What may go wrong with the git diff subprocess of one product: nothing,
\* git exits with an error, or subprocess.run itself raises.
DiffFaults == {"none", "exit_error", "exception"}

NoFaults == [name \in DOMAIN catalog |-> "none"]

\* The subprocess.run of git diff: it raised, or it returned with stdout
\* non-empty or empty. git exits with an error (and prints nothing on
\* stdout) under the fault "exit_error" and when last_commit is no commit
\* of the repository.
git_diff(name, last_commit, fault) ==
  IF fault = "exception" THEN [raised |-> TRUE, stdout |-> FALSE]
  ELSE IF fault = "exit_error" \/ last_commit > head
  THEN [raised |-> FALSE, stdout |-> FALSE]
  ELSE [raised |-> FALSE, stdout |-> diff_not_empty(name, last_commit)]

\* get_changed_products(ctx) on the state st, the git diff of each product
\* running under the fault faults[name].
get_changed_products_under(st, faults) ==
  {name \in DOMAIN catalog :
     LET product_state == ProductState(st, name) IN
     IF use_git
     THEN \/ ~Truthy(product_state, "published_commit")
          \/ LET result == git_diff(name, product_state["published_commit"],
                                    faults[name])
             IN result.raised \/ result.stdout
     ELSE \/ ~Truthy(product_state, "published_hash")
          \/ product_state["published_hash"] # compute_product_hash(name)}

\* get_changed_products(ctx) on the in-memory state st.
get_changed_products(st) == get_changed_products_under(st, NoFaults)

(***************************************************************************)
(* Commands: the run record                                                *)
(***************************************************************************)

\* No command has run yet.
NoRun ==
  [cmd |-> "none", dry_run |-> FALSE, force |-> FALSE, filter |-> {},
   order |-> <<>>, idx |-> 0, pc |-> "done", status |-> "ok", reason |-> "",
   op |-> 0, calls |-> {}, writes |-> 0, failed |-> {}, before |-> EmptyDict,
   returned |-> EmptyDict, path |-> ""]

\* main() has built the context of a command: nothing called or written yet,
\* before remembers the state document as the command found it.
NewRun(cmd, dry_run, force, filter) ==
  [NoRun EXCEPT !.cmd = cmd, !.dry_run = dry_run, !.force = force,
                !.filter = filter, !.pc = "start", !.status = "running",
                !.before = disk]

\* The command returns (status "ok", "nothing", "invalid", "aborted") or an
\* exception leaves it (status "raised").
Finished(r, status, reason) ==
  [r EXCEPT !.pc = "done", !.status = status, !.reason = reason, !.op = 0,
            !.returned = EmptyDict, !.path = ""]

\* The for loop moves to the next product of the order, or the command ends.
NextProduct(r) ==
  IF r.idx >= Len(r.order)
  THEN Finished(r, "ok", "")
  ELSE [r EXCEPT !.idx = @ + 1, !.pc = "step", !.op = 0, !.returned = EmptyDict,
           !.path = ""]

\* The loop body of a batch starts with the first product of the order.
StartBatch(r, order) == [r EXCEPT !.order = order, !.idx = 1, !.pc = "step"]

\* The state document after open(state_file, "w") has truncated it and
\* before json.dump has written it out: json.load raises on it.
Unreadable == [unreadable |-> TRUE]

\* load_deploy_state can parse the state document (or there is none yet).
Readable == disk # Unreadable

\* No command is running and the clock allows another one.
Idle == run.cmd = "none" /\ now < MaxCommands

\* The -p option: absent ({}), or one catalog product.
Filters == {{}} \cup {{p} : p \in DOMAIN catalog}

\* The sets of products one commit may change files of: none (a file outside
\* the product directories) or one product.
Touched == {{}} \cup {{p} : p \in DOMAIN catalog}

(***************************************************************************)
(* The environment: commits and the external service                       *)
(***************************************************************************)

\* Somebody commits (source-control mode) or edits (content-hash mode) the
\* files of the products ps.
Commit ==
  /\ Idle
  /\ head < MaxCommits
  /\ \E ps \in Touched :
       /\ head' = head + 1
       /\ tree' = [p \in Products |-> IF p \in ps THEN head + 1 ELSE tree[p]]
  /\ UNCHANGED <<catalog, call, use_git, now, bootstrap_state, state, disk,
                 pp, next_id, run>>

\* A provisioned instance disappears from the external service (deleted
\* outside the tool).
Vanish ==
  /\ Idle
  /\ \E p \in Products :
       /\ pp[p] # 0
       /\ pp' = [pp EXCEPT ![p] = 0]
  /\ UNCHANGED <<catalog, call, use_git, head, tree, now, bootstrap_state,
                 state, disk, next_id, run>>

(***************************************************************************)
(* save_deploy_state                                                       *)
(***************************************************************************)

\* Variant of save_deploy_state that leaves the file as it is.
save_deploy_state_skipped(st) == disk

\* save_deploy_state(catalog, state): the new content of the state document.
save_deploy_state(st) == st

\* The save that follows a product's step in the loop of a non-dry-run batch.
Save ==
  /\ run.pc = "save"
  /\ disk' = save_deploy_state(state)
  /\ run' = NextProduct([run EXCEPT !.writes = @ + 1])
  /\ UNCHANGED <<catalog, call, use_git, head, tree, now, bootstrap_state,
                 state, pp, next_id>>

(***************************************************************************)
(* bootstrap.py: cmd_bootstrap and cmd_destroy                             *)
(***************************************************************************)

\* The "if ctx.dry_run" test of the bootstrap_* and destroy_* functions.
bootstrap_dry_run(dry_run) == dry_run

\* cmd_bootstrap: ensures the foundational resources and saves the record.
CmdBootstrap ==
  /\ Idle
  /\ now' = now + 1
  /\ \E dry_run \in BOOLEAN :
       LET r == NewRun("bootstrap", dry_run, FALSE, {}) IN
       IF bootstrap_dry_run(dry_run)
       THEN /\ run' = Finished(r, "ok", "")
            /\ UNCHANGED bootstrap_state
       ELSE /\ run' = Finished([r EXCEPT !.calls = {"bootstrap"}, !.writes = 1],
                               "ok", "")
            /\ bootstrap_state' = TRUE
  /\ UNCHANGED <<catalog, call, use_git, head, tree, state, disk, pp, next_id>>

\* cmd_destroy: deletes the foundational resources and clears the record.
CmdDestroy ==
  /\ Idle
  /\ now' = now + 1
  /\ \E dry_run \in BOOLEAN :
       LET r == NewRun("destroy", dry_run, FALSE, {}) IN
       IF ~bootstrap_state
       THEN /\ run' = Finished(r, "nothing", "")
            /\ UNCHANGED bootstrap_state
       ELSE IF bootstrap_dry_run(dry_run)
       THEN /\ run' = Finished(r, "ok", "")
            /\ UNCHANGED bootstrap_state
       ELSE /\ run' = Finished([r EXCEPT !.calls = {"bootstrap"}, !.writes = 1],
                               "ok", "")
            /\ bootstrap_state' = FALSE
  /\ UNCHANGED <<catalog, call, use_git, head, tree, state, disk, pp, next_id>>

(***************************************************************************)
(* publish                                                                 *)
(***************************************************************************)

\* Variant of to_publish that takes the listed products whether forced or
\* not.
to_publish_listed(changed_products, filter, force) ==
  IF filter # {} THEN filter ELSE changed_products

\* The products cmd_publish selects.
to_publish(changed_products, filter, force) ==
  IF filter # {}
  THEN IF force THEN filter ELSE filter \cap changed_products
  ELSE changed_products

\* cmd_publish from change detection to the start of the loop.
plan_publish(r, changed_products) ==
  LET selected == to_publish(changed_products, r.filter, r.force) IN
  IF selected = {}
  THEN {Finished(r, "nothing", "")}
  ELSE {IF topological_sort(iter).raised
        THEN Finished(r, "raised", "cycle")
        ELSE StartBatch(r, topological_sort(iter).order) :
          iter \in Perms(selected)}

\* cmd_publish up to the start of the loop: validation, then the working
\* tree is clean, or it is not and the changes are committed (or, in a dry
\* run, left alone), or the commit fails and the command returns.
CmdPublish ==
  /\ Idle /\ Readable
  /\ now' = now + 1
  /\ UNCHANGED <<catalog, call, use_git, bootstrap_state, disk, pp, next_id>>
  /\ state' = disk
  /\ \E filter \in Filters, force \in BOOLEAN, dry_run \in BOOLEAN :
       LET r == NewRun("publish", dry_run, force, filter) IN
       /\ force => filter # {}
       /\ IF ~cmd_validate
          THEN /\ run' = Finished(r, "invalid", "validation")
               /\ UNCHANGED <<head, tree>>
          ELSE \/ /\ UNCHANGED <<head, tree>>
                  /\ run' \in plan_publish(r, get_changed_products(disk))
               \/ /\ use_git /\ ~dry_run /\ head < MaxCommits
                  /\ \E ps \in Touched :
                       /\ head' = head + 1
                       /\ tree' = [p \in Products |->
                                     IF p \in ps THEN head + 1 ELSE tree[p]]
                  /\ run' \in plan_publish(r, get_changed_products(disk)')
               \/ /\ use_git /\ ~dry_run
                  /\ run' = Finished(r, "aborted", "commit failed")
                  /\ UNCHANGED <<head, tree>>

\* Variant of publish_dry_run that never skips.
publish_dry_run_ignored(dry_run) == FALSE

\* The "if ctx.dry_run" test of publish_product.
publish_dry_run(dry_run) == dry_run

\* The record update that ends publish_product.
published_record(product, product_state, version) ==
  Update(product_state,
         [version |-> version,
          published_commit |-> get_current_commit,
          published_hash |-> compute_product_hash(product),
          published_at |-> TRUE])

\* publish_product(ctx, product) for the product the loop is at.
PublishProduct ==
  /\ run.cmd = "publish" /\ run.pc = "step"
  /\ LET product == run.order[run.idx] IN
     IF publish_dry_run(run.dry_run)
     THEN /\ run' = NextProduct(run)
          /\ UNCHANGED state
     ELSE \* upload of the template and registration of the version
          \/ /\ state' = [q \in DOMAIN state \cup {product} |->
                            IF q = product
                            THEN published_record(product, ProductState(state, product), now)
                            ELSE state[q]]
             /\ run' = [run EXCEPT !.calls = @ \cup {product}, !.pc = "save"]
          \* the template file is missing or a call fails
          \/ /\ run' = Finished([run EXCEPT !.calls = @ \cup {product}],
                                "raised", "error")
             /\ UNCHANGED state
  /\ UNCHANGED <<catalog, call, use_git, head, tree, now, bootstrap_state,
                 disk, pp, next_id>>

(***************************************************************************)
(* deploy                                                                  *)
(***************************************************************************)

\* The products cmd_deploy finds in need of deployment.
to_deploy(st, filter) ==
  {name \in DOMAIN catalog :
     LET product_state == ProductState(st, name) IN
     /\ ~(filter # {} /\ name \notin filter)
     /\ Truthy(product_state, "published_commit")
     /\ ~("deployed_commit" \in DOMAIN product_state
          /\ product_state["published_commit"] = product_state["deployed_commit"])}

\* cmd_deploy up to the start of the loop.
CmdDeploy ==
  /\ Idle /\ Readable
  /\ now' = now + 1
  /\ \E filter \in Filters, dry_run \in BOOLEAN :
       LET r == NewRun("deploy", dry_run, FALSE, filter)
           candidates == to_deploy(disk, filter)
       IN
       /\ state' = disk
       /\ IF ~cmd_validate
          THEN run' = Finished(r, "invalid", "validation")
          ELSE IF candidates = {}
          THEN run' = Finished(r, "nothing", "")
          ELSE \E changedSeq \in Perms(candidates) :
                 \E iter \in Perms(get_affected_products(changedSeq)) :
                   LET sorted == topological_sort(iter) IN
                   run' = IF sorted.raised
                          THEN Finished(r, "raised", "cycle")
                          ELSE StartBatch(r, sorted.order)
  /\ UNCHANGED <<catalog, call, use_git, head, tree, bootstrap_state,
                 disk, pp, next_id>>

\* The "if ctx.dry_run" test of deploy_product.
deploy_dry_run(dry_run) == dry_run

\* Variant of deploy_precheck that goes on with unresolved parameters.
deploy_precheck_unresolved(st, product, dry_run) ==
  IF ~Truthy(ProductState(st, product), "version") THEN "unpublished"
  ELSE IF deploy_dry_run(dry_run) THEN "dry_run"
  ELSE ""

\* What stops deploy_product before it reaches the external service:
\* "unpublished" and "unresolved" raise, "dry_run" returns, "" goes on.
deploy_precheck(st, product, dry_run) ==
  IF ~Truthy(ProductState(st, product), "version") THEN "unpublished"
  ELSE IF resolve_parameters(st, product).raised THEN "unresolved"
  ELSE IF deploy_dry_run(dry_run) THEN "dry_run"
  ELSE ""

\* The outputs the tool reads for the instance id: the declared outputs of
\* the product with the instance's values, or none at all (the record
\* carries none and the stack query fails or finds none).
OutputsRead(product, id) ==
  {EmptyDict, [o \in catalog[product].outputs |-> id]}

\* Variant of deployed_record that keeps an instance id the record has.
deployed_record_keeps_id(product_state, pp_id, outputs) ==
  Update(product_state,
         [deployed_commit |-> get_current_commit,
          deployed_at |-> TRUE,
          provisioned_product_id |->
            Get(product_state, "provisioned_product_id", pp_id),
          provisioned_product_name |-> TRUE,
          outputs |-> outputs])

\* The record update that ends deploy_product.
deployed_record(product_state, pp_id, outputs) ==
  Update(product_state,
         [deployed_commit |-> get_current_commit,
          deployed_at |-> TRUE,
          provisioned_product_id |-> pp_id,
          provisioned_product_name |-> TRUE,
          outputs |-> outputs])

\* Variant of deploy_failed that goes on with the next product.
deploy_failed_continues(r, reason) == NextProduct(r)

\* The operation ended FAILED or timed out: deploy_product raises and the
\* exception leaves cmd_deploy.
deploy_failed(r, reason) == Finished(r, "raised", reason)

\* deploy_product(ctx, product) from its start to the create or update call.
DeployProduct ==
  /\ run.cmd = "deploy" /\ run.pc = "step"
  /\ LET product == run.order[run.idx]
         product_state == ProductState(state, product)
         precheck == deploy_precheck(state, product, run.dry_run)
         called == [run EXCEPT !.calls = @ \cup {product}]
         existing_pp_id == IF Truthy(product_state, "provisioned_product_id")
                           THEN product_state["provisioned_product_id"]
                           ELSE 0
     IN
     IF precheck \in {"unpublished", "unresolved"}
     THEN /\ run' = Finished(run, "raised", precheck)
          /\ UNCHANGED <<pp, next_id>>
     ELSE IF precheck = "dry_run"
     THEN /\ run' = NextProduct(run)
          /\ UNCHANGED <<pp, next_id>>
     ELSE \* a call fails with an error the function does not handle (the
          \* artifact is not found, the update of a found duplicate fails...)
          \/ /\ run' = Finished(called, "raised", "error")
             /\ UNCHANGED <<pp, next_id>>
          \* the recorded instance exists and the update is accepted
          \/ /\ existing_pp_id # 0 /\ pp[product] = existing_pp_id
             /\ run' = [called EXCEPT !.pc = "wait", !.op = existing_pp_id,
                                      !.path = "update"]
             /\ UNCHANGED <<pp, next_id>>
          \* the recorded instance exists and there is nothing to update:
          \* deploy_product returns the outputs it reads, the record stays
          \/ /\ existing_pp_id # 0 /\ pp[product] = existing_pp_id
             /\ \E outputs \in OutputsRead(product, existing_pp_id) :
                  run' = [called EXCEPT !.pc = "save", !.returned = outputs,
                                        !.path = "no updates"]
             /\ UNCHANGED <<pp, next_id>>
          \* no usable recorded instance, the name is free: create
          \/ /\ ~(existing_pp_id # 0 /\ pp[product] = existing_pp_id)
             /\ pp[product] = 0
             /\ pp' = [pp EXCEPT ![product] = next_id]
             /\ next_id' = next_id + 1
             /\ run' = [called EXCEPT !.pc = "wait", !.op = next_id,
                                      !.path = "create"]
          \* no usable recorded instance, the name is taken: the instance
          \* found by name is updated
          \/ /\ ~(existing_pp_id # 0 /\ pp[product] = existing_pp_id)
             /\ pp[product] # 0
             /\ run' = [called EXCEPT !.pc = "wait", !.op = pp[product],
                                      !.path = "create, duplicate"]
             /\ UNCHANGED <<pp, next_id>>
  /\ UNCHANGED <<catalog, call, use_git, head, tree, now, bootstrap_state,
                 state, disk>>

\* deploy_product from wait_for_provisioned_product to its return.
DeployWait ==
  /\ run.cmd = "deploy" /\ run.pc = "wait"
  /\ LET product == run.order[run.idx] IN
     \/ \E outputs \in OutputsRead(product, run.op) :
          /\ state' = [q \in DOMAIN state \cup {product} |->
                         IF q = product
                         THEN deployed_record(ProductState(state, product),
                                              run.op, outputs)
                         ELSE state[q]]
          /\ run' = [run EXCEPT !.pc = "save"]
     \/ \E result \in {"FAILED", "TIMEOUT"} :
          /\ run' = deploy_failed([run EXCEPT !.failed = {product}], result)
          /\ UNCHANGED state
  /\ UNCHANGED <<catalog, call, use_git, head, tree, now, bootstrap_state,
                 disk, pp, next_id>>

(***************************************************************************)
(* terminate                                                               *)
(***************************************************************************)

\* cmd_terminate up to the start of the loop (the confirmation prompt is
\* answered "yes", or skipped with --force or in a dry run).
CmdTerminate ==
  /\ Idle /\ Readable
  /\ now' = now + 1
  /\ \E filter \in Filters, force \in BOOLEAN, dry_run \in BOOLEAN :
       LET r == NewRun("terminate", dry_run, FALSE, filter)
           to_terminate ==
             IF filter # {} THEN filter
             ELSE {name \in DOMAIN catalog :
                     Truthy(ProductState(disk, name), "provisioned_product_id")}
       IN
       /\ state' = disk
       /\ IF to_terminate = {}
          THEN run' = Finished(r, "nothing", "")
          ELSE \E iter \in Perms(to_terminate) :
                 LET sorted == topological_sort(iter) IN
                 \/ run' = IF sorted.raised
                           THEN Finished(r, "raised", "cycle")
                           ELSE StartBatch(r, Reverse(sorted.order))
                 \/ /\ ~dry_run /\ ~force /\ ~sorted.raised
                    /\ run' = Finished(r, "aborted", "not confirmed")
  /\ UNCHANGED <<catalog, call, use_git, head, tree, bootstrap_state,
                 disk, pp, next_id>>

\* The "if ctx.dry_run" test of terminate_product.
terminate_dry_run(dry_run) == dry_run

\* Variant of terminated_record that drops the whole record.
terminated_record_all(product_state) == EmptyDict

\* The state clearing of a terminate that SUCCEEDED.
terminated_record(product_state) ==
  Pop(product_state, {"provisioned_product_id", "provisioned_product_name",
                      "deployed_commit", "deployed_at", "outputs"})

\* terminate_product(ctx, product) from its start to the terminate call.
TerminateProduct ==
  /\ run.cmd = "terminate" /\ run.pc = "step"
  /\ LET product == run.order[run.idx]
         product_state == ProductState(state, product)
         called == [run EXCEPT !.calls = @ \cup {product}]
     IN
     IF terminate_dry_run(run.dry_run)
     THEN run' = NextProduct(run)
     ELSE IF ~Truthy(product_state, "provisioned_product_id")
     THEN run' = [run EXCEPT !.pc = "save"]
     ELSE \* the terminate call is accepted
          \/ /\ pp[product] = product_state["provisioned_product_id"]
             /\ run' = [called EXCEPT !.pc = "wait",
                                      !.op = product_state["provisioned_product_id"]]
          \* ResourceNotFoundException: "already terminated", returns True
          \/ /\ pp[product] # product_state["provisioned_product_id"]
             /\ run' = [called EXCEPT !.pc = "save"]
          \* any other exception: returns False
          \/ run' = [called EXCEPT !.pc = "save", !.failed = @ \cup {product}]
  /\ UNCHANGED <<catalog, call, use_git, head, tree, now, bootstrap_state,
                 state, disk, pp, next_id>>

\* terminate_product from wait_for_provisioned_product to its return.
TerminateWait ==
  /\ run.cmd = "terminate" /\ run.pc = "wait"
  /\ LET product == run.order[run.idx] IN
     \* SUCCEEDED: the instance is gone and the record is cleared
     \/ /\ pp' = [pp EXCEPT ![product] = IF @ = run.op THEN 0 ELSE @]
        /\ state' = IF product \in DOMAIN state
                    THEN [state EXCEPT ![product] = terminated_record(@)]
                    ELSE state
        /\ run' = [run EXCEPT !.pc = "save"]
     \* FAILED or TIMEOUT: returns False, the record and the instance stay
     \/ /\ run' = [run EXCEPT !.pc = "save", !.failed = @ \cup {product}]
        /\ UNCHANGED <<pp, state>>
  /\ UNCHANGED <<catalog, call, use_git, head, tree, now, bootstrap_state,
                 disk, next_id>>

(***************************************************************************)
(* wait_for_provisioned_product                                            *)
(***************************************************************************)

\* The timeout parameter's default, in seconds; no caller passes another.
wait_timeout == 600

\* The argument of time.sleep between two polls, in seconds.
poll_interval == 10

\* The values of RecordDetail.Status the external service reports.
RecordStatuses ==
  {"CREATED", "IN_PROGRESS", "IN_PROGRESS_IN_ERROR", "SUCCEEDED", "FAILED"}

\* The statuses at which the operation record has stopped changing.
TerminalStatuses == {"SUCCEEDED", "FAILED"}

\* What wait_for_provisioned_product does with the status of one poll:
\* returns SUCCEEDED, returns FAILED, or sleeps ("").
poll_result(status) ==
  IF status = "SUCCEEDED" THEN "SUCCEEDED"
  ELSE IF status \in {"FAILED", "IN_PROGRESS_IN_ERROR"} THEN "FAILED"
  ELSE ""

\* The function has been called: start_time is taken, nothing polled yet.
WaitStart ==
  [fn |-> "wait_for_provisioned_product", pc |-> "test", elapsed |-> 0,
   polls |-> 0, polled_at |-> 0, observed |-> "", result |-> ""]

(***************************************************************************)
(* plan and status                                                         *)
(***************************************************************************)

\* The affected products cmd_plan shows, on the state st.
cmd_plan(st) ==
  LET changed == get_changed_products(st) IN
  get_affected_products(CHOOSE changedSeq \in Perms(changed) : TRUE)

\* What dict.get(key) returns for a missing key.
None == -1

\* The Status column cmd_status prints for the product name, on the state st.
cmd_status(st, name) ==
  LET product_state == ProductState(st, name) IN
  IF ~Truthy(product_state, "version") THEN "NOT PUBLISHED"
  ELSE IF use_git /\ Get(product_state, "published_commit", None)
                      # Get(product_state, "deployed_commit", None)
  THEN "PENDING DEPLOY"
  ELSE IF name \in get_changed_products(st) THEN "CODE CHANGED"
  ELSE "OK"

(***************************************************************************)
(* The commands as a state machine                                         *)
(***************************************************************************)

\* The exit code of the process: main() has no sys.exit after the command,
\* so a command that returns ends with 0 and an uncaught exception with 1.
exit_code(r) == IF r.status = "raised" THEN 1 ELSE 0

\* main() returns and the process ends: its context and the state it holds
\* in memory are gone, the state document and the instances stay.
Exit ==
  /\ run.pc = "done" /\ run.cmd # "none"
  /\ run' = NoRun
  /\ state' = EmptyDict
  /\ UNCHANGED <<catalog, call, use_git, head, tree, now, bootstrap_state,
                 disk, pp, next_id>>

Init ==
  /\ catalog \in DeployCatalogs
  /\ call = NoCall
  /\ use_git \in BOOLEAN
  /\ head = 1
  /\ tree = [p \in Products |-> 1]
  /\ now = 0
  /\ bootstrap_state \in BOOLEAN
  /\ state = EmptyDict
  /\ disk = EmptyDict
  /\ pp = [p \in Products |-> 0]
  /\ next_id = 1
  /\ run = NoRun

Next ==
  \/ Commit
  \/ Vanish
  \/ CmdBootstrap
  \/ CmdDestroy
  \/ CmdPublish
  \/ PublishProduct
  \/ CmdDeploy
  \/ DeployProduct
  \/ DeployWait
  \/ CmdTerminate
  \/ TerminateProduct
  \/ TerminateWait
  \/ Save
  \/ Exit

vars == <<catalog, call, use_git, head, tree, now, bootstrap_state, state,
          disk, pp, next_id, run>>

Spec == Init /\ [][Next]_vars

(***************************************************************************)
(* The commands with a deploy process that may be killed                   *)
(***************************************************************************)

\* The deploy process is killed between two writes of the state document:
\* its context and in-memory state are gone, the document and the instances
\* stay as they are.
Kill ==
  /\ run.cmd = "deploy" /\ run.pc \in {"step", "wait", "save"}
  /\ run' = NoRun
  /\ state' = EmptyDict
  /\ UNCHANGED <<catalog, call, use_git, head, tree, now, bootstrap_state,
                 disk, pp, next_id>>

\* The deploy process is killed inside save_deploy_state, after the file was
\* opened for writing and before the dump is complete.
KillInSave ==
  /\ run.cmd = "deploy" /\ run.pc = "save"
  /\ run' = NoRun
  /\ state' = EmptyDict
  /\ disk' = Unreadable
  /\ UNCHANGED <<catalog, call, use_git, head, tree, now, bootstrap_state,
                 pp, next_id>>

\* main() of a publish, deploy or terminate command on a state document
\* that json.load cannot parse: the exception leaves main().
LoadFails ==
  /\ Idle /\ ~Readable
  /\ now' = now + 1
  /\ \E cmd \in {"publish", "deploy", "terminate"}, dry_run \in BOOLEAN :
       run' = Finished(NewRun(cmd, dry_run, FALSE, {}), "raised", "state unreadable")
  /\ UNCHANGED <<catalog, call, use_git, head, tree, bootstrap_state, state,
                 disk, pp, next_id>>

NextCrash ==
  \/ Next
  \/ LoadFails
  \/ Kill
  \/ KillInSave

SpecCrash == Init /\ [][NextCrash]_vars

(***************************************************************************)
(* Properties of the commands (checked under Spec)                         *)
(***************************************************************************)

\* The record of product p in the state document.
Record(p) == ProductState(disk, p)

\* The instance the record of product p names exists in the external
\* service.
Live(p) ==
  /\ Truthy(Record(p), "provisioned_product_id")
  /\ pp[p] = Record(p)["provisioned_product_id"]

\* The products the loop of the running command has reached so far.
Reached == {run.order[j] : j \in 1..run.idx}

\* C5: in every reachable state, in memory and on disk, a product's
\* deployed_commit is absent, or equal to or older than its
\* published_commit; it never names a commit newer than the published one.
C5_DeployedNotNewer ==
  \A st \in {state, disk} : \A p \in DOMAIN st :
    "deployed_commit" \in DOMAIN st[p] =>
       /\ "published_commit" \in DOMAIN st[p]
       /\ st[p]["deployed_commit"] <= st[p]["published_commit"]

\* C6: when a deploy command (not a dry run) has completed without error,
\* every published product it was asked about has published_commit equal to
\* deployed_commit and an outputs map in the state document, in
\* source-control mode and in content-hash mode.
C6_RoundTrip ==
  (/\ run.cmd = "deploy" /\ run.pc = "done" /\ ~run.dry_run
   /\ run.status \in {"ok", "nothing"}) =>
     \A p \in DOMAIN catalog :
       (Truthy(Record(p), "version") /\ (run.filter = {} \/ p \in run.filter)) =>
          /\ "deployed_commit" \in DOMAIN Record(p)
          /\ Record(p)["published_commit"] = Record(p)["deployed_commit"]
          /\ "outputs" \in DOMAIN Record(p)

\* C7: when the operation of a product of a deploy batch ended FAILED or
\* timed out, the command has ended with the exception and no call was
\* issued for a product later in the order.
C7_FailFast ==
  (run.cmd = "deploy" /\ run.failed # {}) =>
     /\ run.pc = "done" /\ run.status = "raised"
     /\ run.failed = {run.order[run.idx]}
     /\ run.calls \subseteq Reached

\* A deploy batch halted by a failed operation with a product left in the
\* order.
C7_Witness ==
  /\ run.cmd = "deploy" /\ run.failed # {}
  /\ run.status = "raised"
  /\ run.idx < Len(run.order)

\* C8: in a publish or deploy batch that is not a dry run, the state
\* document holds every completed step when the next step starts (one write
\* per completed step); when the batch halts with an error at the k-th
\* product, the document holds the post-step records of products 1..k-1 and
\* the records of product k and of the later ones are as before the command.
C8_SavedAfterEachStep ==
  (run.cmd \in {"publish", "deploy"} /\ ~run.dry_run /\ run.idx >= 1) =>
     /\ run.pc \in {"step", "wait"} =>
          (disk = state /\ run.writes = run.idx - 1)
     /\ run.status = "ok" =>
          (disk = state /\ run.writes = Len(run.order))
     /\ run.status = "raised" =>
          /\ run.writes = run.idx - 1
          /\ \A j \in 1..(run.idx - 1) :
               Record(run.order[j]) = ProductState(state, run.order[j])
          /\ \A j \in run.idx..Len(run.order) :
               Record(run.order[j]) = ProductState(run.before, run.order[j])

\* A batch halted at its second product: the record of the first one has
\* been rewritten on disk.
C8_Witness ==
  /\ run.cmd \in {"publish", "deploy"} /\ ~run.dry_run
  /\ run.status = "raised" /\ run.idx = 2
  /\ Record(run.order[1]) # ProductState(run.before, run.order[1])
  /\ Record(run.order[2]) = ProductState(run.before, run.order[2])

\* C9: a command run with dry-run set issues no call to the external
\* services and writes the state document zero times; the state document,
\* the bootstrap record and the provisioned instances stay as they were
\* before the command.
C9_DryRunNoEffect ==
  /\ [](run.dry_run =>
          (run.calls = {} /\ run.writes = 0 /\ disk = run.before))
  /\ [][run'.dry_run => UNCHANGED <<disk, bootstrap_state, pp, next_id>>]_vars

\* A dry-run deploy that walked through a batch of two products.
C9_Witness ==
  /\ run.cmd = "deploy" /\ run.dry_run
  /\ run.pc = "done" /\ run.status = "ok"
  /\ Len(run.order) = 2

\* C10: after a deploy or terminate command (not a dry run) that ran to its
\* end, the record of every product it processed contains outputs if and
\* only if the product has a live provisioned instance.
C10_OutputsIffLive ==
  (/\ run.cmd \in {"deploy", "terminate"} /\ run.pc = "done"
   /\ ~run.dry_run /\ run.status = "ok") =>
     \A p \in Range(run.order) :
       ("outputs" \in DOMAIN Record(p)) <=> Live(p)

(***************************************************************************)
(* Graph notions the properties are stated with                            *)
(***************************************************************************)

\* The dependencies of a that lie in S.
DepsIn(a, S) == Range(Deps(a)) \cap S

RECURSIVE DepClosure(_, _)
DepClosure(front, S) ==
  LET next == front \cup UNION {DepsIn(a, S) : a \in front} IN
  IF next = front THEN front ELSE DepClosure(next, S)

\* Everything a depends on, directly or transitively, inside S.
TransDeps(a, S) == DepClosure(DepsIn(a, S), S)

\* The dependency graph induced on S has a cycle (a self reference is one).
Cyclic(S) == \E a \in S : a \in TransDeps(a, S)

\* order lists each member of S exactly once and nothing else.
IsEnumeration(order, S) ==
  /\ Range(order) = S
  /\ Len(order) = Cardinality(S)

\* Every product stands after its dependencies that are in S.
DepsFirst(order, S) ==
  \A i, j \in 1..Len(order) :
    order[j] \in DepsIn(order[i], S) => j < i

RECURSIVE Component(_)
\* The products connected to the set K by dependency edges in either
\* direction (the disconnected component of the catalog graph around K).
Component(K) ==
  LET next == K \cup {p \in Products :
                        \E q \in K : p \in DepsIn(q, Products)
                                     \/ q \in DepsIn(p, Products)}
  IN IF next = K THEN K ELSE Component(next)

CyclicComponents ==
  {Component({p}) : p \in {q \in Products : Cyclic(Component({q}))}}

(***************************************************************************)
(* Properties of the graph functions (checked under SpecGraph)             *)
(***************************************************************************)

\* C1: for every subset S whose induced dependency graph is acyclic,
\* topological_sort(S) returns a list holding each product of S exactly once
\* and nothing else, every product after its dependencies in S.
C1_TopologicalOrder ==
  (call.fn = "topological_sort" /\ ~Cyclic(call.arg)) =>
     /\ ~call.raised
     /\ IsEnumeration(call.order, call.arg)
     /\ DepsFirst(call.order, call.arg)

\* C2: for every subset S whose induced dependency graph has a cycle,
\* topological_sort(S) raises the cycle error and returns no list.
C2_CycleRaises ==
  (call.fn = "topological_sort" /\ Cyclic(call.arg)) =>
     (call.raised /\ call.order = <<>>)

\* A cyclic subset with a product free of in-subset dependencies: the loop
\* has built a non-empty partial order when the error is raised.
C2_Witness ==
  /\ call.fn = "topological_sort"
  /\ Cyclic(call.arg)
  /\ call.raised
  /\ \E p \in call.arg : DepsIn(p, call.arg) = {}

\* C3: get_affected_products returns exactly changed united with every
\* product that transitively depends on a member of changed.
C3_AffectedExact ==
  call.fn = "get_affected_products" =>
     call.set = call.arg \cup
                {p \in Products : TransDeps(p, Products) \cap call.arg # {}}

\* A cascade that reaches a product with no direct dependency on a changed
\* product.
C3_Witness ==
  /\ call.fn = "get_affected_products"
  /\ \E p \in call.set \ call.arg :
       /\ DepsIn(p, Products) \cap call.arg = {}
       /\ TransDeps(p, Products) \cap call.arg # {}

\* C4: validate_circular_dependencies returns no error iff the catalog graph
\* is acyclic, and it reports an error for every disconnected component
\* that contains a cycle.
C4_ValidateCircular ==
  call.fn = "validate_circular_dependencies" =>
     /\ (call.errors = <<>>) <=> ~Cyclic(Products)
     /\ \A K \in CyclicComponents : Range(call.errors) \cap K # {}

\* Two disconnected components with a cycle each, both reported.
C4_Witness ==
  /\ call.fn = "validate_circular_dependencies"
  /\ Cardinality(CyclicComponents) >= 2
  /\ Len(call.errors) >= 2

(***************************************************************************)
(* Properties of terminate, validation and selection (checked under Spec)  *)
(***************************************************************************)

\* The product the loop of the running command is at.
Current == run.order[run.idx]

\* q depends on p, directly or transitively, in the catalog.
DependsOn(q, p) == p \in TransDeps(q, DOMAIN catalog)

\* Every product stands before its dependencies that are in S: the order is
\* the reverse of one that satisfies DepsFirst.
DependentsFirst(order, S) ==
  \A i, j \in 1..Len(order) :
    order[j] \in DepsIn(order[i], S) => i < j

\* C11: during a terminate batch, when the terminate call for a product has
\* been issued, no product of the batch that depends on it still has a
\* provisioned instance, also after the termination of a dependent failed
\* or timed out.
C11_DependentsTornDownFirst ==
  (run.cmd = "terminate" /\ run.idx >= 1 /\ Current \in run.calls) =>
     \A q \in Range(run.order) : DependsOn(q, Current) => pp[q] = 0

TerminateSucceeds == run.cmd = "terminate" /\ run.pc = "wait" /\ pp' # pp

\* C13: when the terminate operation of a product SUCCEEDS, the product's
\* record loses provisioned_product_id, provisioned_product_name and outputs,
\* its version, published_commit, published_hash and published_at stay as
\* they were, and the records of all other products are unchanged.
C13_TerminateClearsInstanceFields ==
  [][TerminateSucceeds =>
       LET old == ProductState(state, Current)
           new == ProductState(state', Current)
       IN /\ DOMAIN new \cap {"provisioned_product_id",
                               "provisioned_product_name", "outputs"} = {}
          /\ \A k \in {"version", "published_commit", "published_hash",
                        "published_at"} :
               /\ k \in DOMAIN old <=> k \in DOMAIN new
               /\ k \in DOMAIN old => new[k] = old[k]
          /\ \A q \in DOMAIN catalog \ {Current} :
               ProductState(state', q) = ProductState(state, q)]_vars

\* A terminate that SUCCEEDED for a deployed product while another product
\* holds a record with outputs: the instance fields are gone, the version
\* is still there.
C13_Witness ==
  /\ run.cmd = "terminate" /\ run.pc = "save"
  /\ Truthy(ProductState(run.before, Current), "provisioned_product_id")
  /\ ~Truthy(ProductState(state, Current), "provisioned_product_id")
  /\ Truthy(ProductState(state, Current), "version")
  /\ \E q \in DOMAIN catalog \ {Current} :
       "outputs" \in DOMAIN ProductState(state, q)

\* C14: after a terminate command, every product it terminated with success
\* is reported by status as not published and is not selected by a deploy
\* command with no product list run on the state document as it stands.
C14_TerminatedIsUnpublished ==
  (run.cmd = "terminate" /\ run.pc = "done") =>
     \A p \in Range(run.order) :
       (/\ Truthy(ProductState(run.before, p), "provisioned_product_id")
        /\ ~Truthy(Record(p), "provisioned_product_id")) =>
          /\ cmd_status(disk, p) = "NOT PUBLISHED"
          /\ p \notin to_deploy(disk, {})

\* The dependency and the output the mapping of param names: the pair
\* <<q, o>> with source text "q.o".
MappedOutput(p, param) ==
  CHOOSE m \in (DOMAIN catalog) \X (UNION {catalog[q].outputs : q \in DOMAIN catalog}) :
    catalog[p].parameter_mapping[param] = <<m[1], ".", m[2]>>

\* The state st records no value for the output the mapping of param names.
OutputMissing(st, p, param) ==
  LET m == MappedOutput(p, param) IN
  ~(/\ "outputs" \in DOMAIN ProductState(st, m[1])
    /\ m[2] \in DOMAIN ProductState(st, m[1])["outputs"])

\* C15: on every state the commands reach, resolve_parameters raises exactly
\* when a mapped dependency has no outputs record or lacks the mapped
\* output, and otherwise returns a mapping that gives every declared
\* parameter the value recorded for its mapped output; deploy_product issues
\* calls for a product only after its parameters resolved.
C15_ResolveParameters ==
  /\ \A st \in {state, disk} : \A p \in DOMAIN catalog :
       LET r == resolve_parameters(st, p)
           mappings == catalog[p].parameter_mapping
       IN /\ r.raised <=> \E param \in DOMAIN mappings : OutputMissing(st, p, param)
          /\ ~r.raised =>
               /\ DOMAIN r.resolved = DOMAIN mappings
               /\ \A param \in DOMAIN mappings :
                    r.resolved[param] =
                      st[MappedOutput(p, param)[1]]["outputs"][MappedOutput(p, param)[2]]
  /\ (run.cmd = "deploy" /\ run.reason = "unresolved") =>
        resolve_parameters(state, Current).raised
  /\ (run.cmd = "deploy" /\ run.idx >= 1 /\ Current \in run.calls) =>
        ~resolve_parameters(state, Current).raised

\* A deploy that issued calls for a product with a parameter mapping, its
\* parameter bound to the recorded output of the dependency.
C15_Witness ==
  /\ run.cmd = "deploy" /\ run.idx >= 1 /\ Current \in run.calls
  /\ \E param \in DOMAIN catalog[Current].parameter_mapping :
       /\ ~OutputMissing(state, Current, param)
       /\ resolve_parameters(state, Current).resolved[param] # EmptyStr

\* C16: while a publish, deploy or terminate command runs on a catalog
\* that fails validation, it has issued no call to the external services
\* and has not written the state document.
C16_NoEffectWhenInvalid ==
  (run.cmd \in {"publish", "deploy", "terminate"} /\ ~cmd_validate) =>
     (run.calls = {} /\ run.writes = 0)

\* C17: a publish, deploy or terminate process that ends with exit code 0
\* has succeeded: validation passed and no provisioning or termination step
\* failed.
C17_ExitCodeZeroOnlyOnSuccess ==
  (run.cmd \in {"publish", "deploy", "terminate"} /\ run.pc = "done"
   /\ exit_code(run) = 0) =>
     (run.status # "invalid" /\ run.failed = {})

\* The record rec is of a product that is published and not deployed at the
\* published commit: never deployed, or deployed at another commit.
PublishedNotDeployed(rec) ==
  /\ Truthy(rec, "version")
  /\ \/ "deployed_commit" \notin DOMAIN rec
     \/ rec["published_commit"] # rec["deployed_commit"]

\* C18: a deploy command with no product list that passed validation has
\* every published and not yet deployed product in its batch, in
\* source-control mode and in content-hash mode.
C18_PublishedIsCandidate ==
  (run.cmd = "deploy" /\ run.filter = {} /\ run.status # "invalid") =>
     \A p \in DOMAIN catalog :
       PublishedNotDeployed(ProductState(run.before, p)) => p \in Range(run.order)

\* C19: a publish command with no product list that passed validation
\* publishes exactly the affected set the plan command shows for the state
\* it started from: the changed products and all their transitive
\* dependents.
C19_PublishCascades ==
  (run.cmd = "publish" /\ run.filter = {}
   /\ run.status \in {"running", "ok", "nothing"}) =>
     Range(run.order) = cmd_plan(run.before)

\* The position of product p in the batch.
Pos(p) == CHOOSE i \in 1..Len(run.order) : run.order[i] = p

C29_ReportedOnCycle ==
  call.fn = "validate_circular_dependencies" =>
     \A i \in 1..Len(call.errors) :
       call.errors[i] \in TransDeps(call.errors[i], Products)

\* C30: validate_circular_dependencies reports no error if and only if
\* topological_sort succeeds on the full product set, and when it reports
\* no error topological_sort succeeds on every subset of the products.
C30_DetectorsAgree ==
  call.fn = "topological_sort" =>
     /\ validate_circular_dependencies = <<>> => ~call.raised
     /\ (call.arg = Products /\ ~call.raised) =>
           validate_circular_dependencies = <<>>

(***************************************************************************)
(* Change detection under failures (checked under SpecChange)              *)
(***************************************************************************)

\* C22: in source-control mode a product with a recorded published_commit
\* is reported as changed whenever its diff cannot be computed (the
\* subprocess raises, or git exits with an error, as for an unknown commit
\* id) and whenever the diff is not empty.
C22_DiffFailureIsChanged ==
  (call.fn = "get_changed_products" /\ use_git) =>
     \A name \in DOMAIN catalog :
       LET last_commit == Get(ProductState(state, name), "published_commit", EmptyStr)
       IN (/\ last_commit # EmptyStr
           /\ \/ call.arg[name] # "none"
              \/ last_commit > head
              \/ diff_not_empty(name, last_commit)) => name \in call.set

(***************************************************************************)
(* The content hash (checked under SpecHash)                               *)
(***************************************************************************)

\* C23: two directory contents that differ by one changed byte in one file,
\* or by the renaming of one file with unchanged content, get different
\* hashes from compute_product_hash.
C23_HashSeesEveryEdit ==
  call.fn = "compute_product_hash" => call.hashes[1] # call.hashes[2]

(***************************************************************************)
(* Properties of publish and deploy_product (checked under Spec)           *)
(***************************************************************************)

\* The publish command got past validation and the commit of the working
\* tree, so it has selected its products.
PublishSelected ==
  run.cmd = "publish" /\ run.status \notin {"invalid", "aborted"}

\* C21: a publish without --force selects only products that change
\* detection reports as changed; with --force and a product list it selects
\* and, when it completes, publishes every listed product; a publish that
\* selects nothing uploads nothing, creates no version and leaves the state
\* as it was; and once a non-dry-run publish has completed, a second publish
\* of the same product list without --force selects nothing.
C21_PublishOnlyChanged ==
  PublishSelected =>
    /\ ~run.force => Range(run.order) \subseteq get_changed_products(run.before)
    /\ (run.force /\ run.pc # "start" /\ run.reason # "cycle") =>
          Range(run.order) = run.filter
    /\ (run.force /\ run.status = "ok" /\ ~run.dry_run) => run.calls = run.filter
    /\ run.status = "nothing" =>
          run.calls = {} /\ run.writes = 0 /\ disk = run.before /\ state = run.before
    /\ (run.status = "ok" /\ ~run.dry_run) =>
          to_publish(get_changed_products(disk), run.filter, FALSE) = {}

\* A second publish found every product published and unchanged, and a
\* forced publish has published a product that was not changed.
C21_Witness ==
  \/ /\ run.cmd = "publish" /\ run.status = "nothing" /\ run.filter = {}
     /\ \A p \in DOMAIN catalog : Truthy(Record(p), "version")
  \/ /\ run.cmd = "publish" /\ run.status = "ok" /\ run.force /\ ~run.dry_run
     /\ run.filter \cap get_changed_products(run.before) = {}

(***************************************************************************)
(* The wait loop (checked under SpecWait)                                  *)
(***************************************************************************)

\* C24: wait_for_provisioned_product returns one of SUCCEEDED, FAILED and
\* TIMEOUT: SUCCEEDED or FAILED only if a poll observed that terminal status
\* of the operation record, TIMEOUT only when the ceiling has elapsed
\* without a terminal status; and no poll starts after the ceiling.
C24_WaitResult ==
  /\ call.polls > 0 => call.polled_at < wait_timeout
  /\ call.pc = "returned" =>
       /\ call.result \in {"SUCCEEDED", "FAILED", "TIMEOUT"}
       /\ call.result \in TerminalStatuses => call.observed = call.result
       /\ call.result = "TIMEOUT" =>
            call.elapsed >= wait_timeout /\ call.observed \notin TerminalStatuses

\* deploy_product has returned through its "No changes to deploy" branch for
\* the product the loop is at: no operation was started.
NoUpdates == run.cmd = "deploy" /\ run.pc = "save" /\ run.path = "no updates"

\* C25: when the product has an instance and the update reports that there
\* is nothing to update, deploy_product returns without raising and the
\* state record is brought up to date: the product is recorded as deployed
\* at the current commit and the outputs just read, if any were read, are
\* the recorded outputs.
C25_NoUpdatesRecorded ==
  NoUpdates =>
    /\ run.status = "running"
    /\ Get(ProductState(state, Current), "deployed_commit", None) = get_current_commit
    /\ run.returned # EmptyDict =>
         Get(ProductState(state, Current), "outputs", None) = run.returned

\* The instance id the in-memory record of p carries, 0 if none.
RecordedId(p) ==
  IF Truthy(ProductState(state, p), "provisioned_product_id")
  THEN ProductState(state, p)["provisioned_product_id"]
  ELSE 0

\* C26: deploy_product issues a create exactly when the state records no
\* usable instance for the product (none, or one that no longer exists); a
\* create that finds the name taken becomes an update of the instance found
\* by name and creates nothing; the operation always runs on the one
\* instance of the product, and on success the state records that
\* instance's id.
C26_CreateOrAdopt ==
  /\ (run.cmd = "deploy" /\ run.pc = "wait") =>
       /\ run.op # 0 /\ pp[Current] = run.op
       /\ run.path = "update" <=> RecordedId(Current) = run.op
       /\ run.path \in {"create", "create, duplicate"} <=>
            (RecordedId(Current) = 0 \/ RecordedId(Current) # pp[Current])
       /\ run.path = "create" => run.op = next_id - 1
  /\ (run.cmd = "deploy" /\ run.pc = "save" /\ run.path # "no updates") =>
       RecordedId(Current) = pp[Current] /\ pp[Current] # 0

\* A deploy found no instance in the state, the create found the name taken,
\* and the update of the instance found by name has succeeded.
C26_Witness ==
  /\ run.cmd = "deploy" /\ run.pc = "save" /\ run.path = "create, duplicate"
  /\ RecordedId(Current) = pp[Current]

\* The dependencies of p that are in the batch.
BatchDeps(p) == Range(Deps(p)) \cap Range(run.order)

\* C27: while the operation of a product P of a deploy batch is outstanding
\* it is the only one (no earlier operation of the batch failed or timed
\* out, every earlier step is complete and saved); every dependency of P in
\* the batch had its step before P's and has an instance and outputs
\* recorded in the state; and P's parameters resolve from the outputs the
\* state records.
C27_SequentialAfterDependencies ==
  (run.cmd = "deploy" /\ run.pc = "wait") =>
    /\ run.failed = {} /\ run.op # 0
    /\ run.writes = run.idx - 1
    /\ run.calls = {run.order[j] : j \in 1..run.idx}
    /\ \A d \in BatchDeps(Current) :
         /\ Pos(d) < run.idx
         /\ Truthy(ProductState(state, d), "provisioned_product_id")
         /\ "outputs" \in DOMAIN ProductState(state, d)
         /\ ProductState(disk, d) = ProductState(state, d)
    /\ \A param \in DOMAIN catalog[Current].parameter_mapping :
         /\ ~OutputMissing(state, Current, param)
         /\ resolve_parameters(state, Current).resolved[param] =
              state[MappedOutput(Current, param)[1]]["outputs"][MappedOutput(Current, param)[2]]

\* The operation of a product is outstanding after the step of its
\* dependency in the same batch.
C27_Witness ==
  /\ run.cmd = "deploy" /\ run.pc = "wait" /\ run.idx = 2
  /\ BatchDeps(Current) # {}

(***************************************************************************)
(* Crash recovery of deploy (checked under SpecCrash)                      *)
(***************************************************************************)

\* This step kills the deploy process in the middle of its batch.
Killed == run.cmd = "deploy" /\ run.pc # "done" /\ run'.cmd = "none"

\* A kill leaves the saved record of every product whose step was saved.
SavedRecordsKept ==
  Killed => \A j \in 1..(run.idx - 1) :
              ProductState(disk', run.order[j]) = ProductState(disk, run.order[j])

\* An instance is created only for a product that has none.
NoSecondInstance == next_id' # next_id => pp[Current] = 0

\* A completed deploy has every product of its batch recorded with the id
\* of its instance and with outputs.
BatchRecorded ==
  (run.cmd = "deploy" /\ run.status = "ok" /\ ~run.dry_run) =>
     \A p \in Range(run.order) :
       /\ Live(p)
       /\ "outputs" \in DOMAIN Record(p)

\* C28: when a deploy process is killed at any point of its batch, the
\* records of the products whose step was saved stay in the state document;
\* no deploy, first run or re-run, creates an instance for a product that
\* has one; and a deploy that completes has every product of its batch
\* recorded with provisioned_product_id and outputs.
C28_CrashRecovery ==
  /\ [][SavedRecordsKept]_vars
  /\ [][NoSecondInstance]_vars
  /\ []BatchRecorded

(***************************************************************************)
(* Catalogs drawn for the graph functions                                  *)
(***************************************************************************)

EmptyEntry == [dependencies |-> <<>>, parameter_mapping |-> <<>>, outputs |-> {}]

RECURSIVE GraphCatalogs(_)
\* Every catalog over Products whose dependency lists (over Names, repeats
\* and self references allowed) hold at most k entries in total.
GraphCatalogs(k) ==
  IF k = 0 THEN {[p \in Products |-> EmptyEntry]}
  ELSE LET prev == GraphCatalogs(k - 1) IN
       prev \cup
       {[c EXCEPT ![p].dependencies = Append(@, n)] :
          c \in prev, p \in Products, n \in Names}

GraphInit ==
  /\ catalog \in GraphCatalogs(MaxDepEntries)
  /\ call = NoCall
  /\ use_git = TRUE
  /\ head = 1
  /\ tree = [p \in Products |-> 1]
  /\ now = 0
  /\ bootstrap_state = FALSE
  /\ state = EmptyDict
  /\ disk = EmptyDict
  /\ pp = [p \in Products |-> 0]
  /\ next_id = 1
  /\ run = NoRun

\* The graph functions read the catalog and change nothing.
GraphFrame ==
  UNCHANGED <<catalog, use_git, head, tree, now, bootstrap_state, state,
              disk, pp, next_id, run>>

\* topological_sort(ctx, S) for a subset S of the catalog products.
TopologicalSort ==
  /\ call.fn = "none"
  /\ \E S \in SUBSET Products : \E iter \in Perms(S) :
       LET r == topological_sort(iter) IN
       call' = [NoCall EXCEPT !.fn = "topological_sort", !.arg = S,
                              !.raised = r.raised, !.order = r.order]
  /\ GraphFrame

\* get_affected_products(ctx, changed) for a set changed of catalog products.
AffectedProducts ==
  /\ call.fn = "none"
  /\ \E changed \in SUBSET Products : \E iter \in Perms(changed) :
       call' = [NoCall EXCEPT !.fn = "get_affected_products", !.arg = changed,
                              !.set = get_affected_products(iter)]
  /\ GraphFrame

\* validate_circular_dependencies(ctx) on the full catalog.
ValidateCircular ==
  /\ call.fn = "none"
  /\ call' = [NoCall EXCEPT !.fn = "validate_circular_dependencies",
                            !.errors = validate_circular_dependencies]
  /\ GraphFrame

\* The records a state document may hold for a product when change
\* detection runs: none, or a published one whose published_commit is "",
\* a commit of the repository or a commit the repository does not have.
PublishedRecords ==
  {EmptyDict} \cup
  {[version |-> 1, published_commit |-> c, published_hash |-> 1,
    published_at |-> TRUE] : c \in 0..(MaxCommits + 1)}

\* The directory contents drawn for compute_product_hash: at most two
\* files, names of 1..MaxNameLen bytes, contents of 0..MaxContentLen bytes.
Directories ==
  UNION {[S -> ByteStrings(0, MaxContentLen)] :
           S \in {T \in SUBSET ByteStrings(1, MaxNameLen) : Cardinality(T) <= 2}}

HashInit ==
  /\ catalog \in DeployCatalogs
  /\ call \in {[fn |-> "none", before |-> dir] : dir \in Directories}
  /\ use_git = FALSE
  /\ head = 1
  /\ tree = [p \in Products |-> 1]
  /\ now = 0
  /\ bootstrap_state = TRUE
  /\ state = EmptyDict
  /\ disk = EmptyDict
  /\ pp = [p \in Products |-> 0]
  /\ next_id = 1
  /\ run = NoRun

\* compute_product_hash before and after one byte of one file is changed.
HashChangedByte ==
  /\ call.fn = "none"
  /\ \E f \in DOMAIN call.before :
       \E i \in 1..Len(call.before[f]) : \E b \in Bytes \ {call.before[f][i]} :
         LET after == [call.before EXCEPT ![f][i] = b] IN
         call' = [fn |-> "compute_product_hash", edit |-> "byte",
                  before |-> call.before, after |-> after,
                  hashes |-> <<compute_product_hash_of(call.before),
                               compute_product_hash_of(after)>>]
  /\ GraphFrame

\* compute_product_hash before and after one file is renamed.
HashRenamedFile ==
  /\ call.fn = "none"
  /\ \E f \in DOMAIN call.before :
       \E g \in ByteStrings(1, MaxNameLen) \ DOMAIN call.before :
         LET after == [h \in (DOMAIN call.before \ {f}) \cup {g} |->
                         IF h = g THEN call.before[f] ELSE call.before[h]] IN
         call' = [fn |-> "compute_product_hash", edit |-> "rename",
                  before |-> call.before, after |-> after,
                  hashes |-> <<compute_product_hash_of(call.before),
                               compute_product_hash_of(after)>>]
  /\ GraphFrame

HashNext == HashChangedByte \/ HashRenamedFile

SpecHash == HashInit /\ [][HashNext]_vars

WaitInit ==
  /\ catalog \in DeployCatalogs
  /\ call = WaitStart
  /\ use_git = FALSE
  /\ head = 1
  /\ tree = [p \in Products |-> 1]
  /\ now = 0
  /\ bootstrap_state = TRUE
  /\ state = EmptyDict
  /\ disk = EmptyDict
  /\ pp = [p \in Products |-> 0]
  /\ next_id = 1
  /\ run = NoRun

\* The loop condition: time.time() - start_time < timeout, else the
\* function returns TIMEOUT.
WaitTest ==
  /\ call.pc = "test"
  /\ call' = IF call.elapsed < wait_timeout
             THEN [call EXCEPT !.pc = "poll"]
             ELSE [call EXCEPT !.pc = "returned", !.result = "TIMEOUT"]
  /\ GraphFrame

\* One describe_record call: it takes some time and reports a status, or it
\* raises and the exception leaves the function.
WaitPoll ==
  /\ call.pc = "poll"
  /\ \E d \in 0..MaxPollSeconds :
       LET polled == [call EXCEPT !.polls = @ + 1, !.polled_at = call.elapsed,
                                  !.elapsed = @ + d] IN
       \/ \E status \in RecordStatuses :
            call' = IF poll_result(status) # ""
                    THEN [polled EXCEPT !.pc = "returned", !.observed = status,
                                        !.result = poll_result(status)]
                    ELSE [polled EXCEPT !.pc = "sleep", !.observed = status]
       \/ call' = [polled EXCEPT !.pc = "raised"]
  /\ GraphFrame

\* time.sleep(10)
WaitSleep ==
  /\ call.pc = "sleep"
  /\ call' = [call EXCEPT !.pc = "test", !.elapsed = @ + poll_interval]
  /\ GraphFrame

WaitNext == WaitTest \/ WaitPoll \/ WaitSleep

SpecWait == WaitInit /\ [][WaitNext]_vars

ChangeInit ==
  /\ catalog \in DeployCatalogs
  /\ call = NoCall
  /\ use_git \in BOOLEAN
  /\ head \in 1..MaxCommits
  /\ tree \in [Products -> 1..MaxCommits] /\ \A p \in Products : tree[p] <= head
  /\ now = 0
  /\ bootstrap_state = TRUE
  /\ state \in [DOMAIN catalog -> PublishedRecords]
  /\ disk = state
  /\ pp = [p \in Products |-> 0]
  /\ next_id = 1
  /\ run = NoRun

\* get_changed_products(ctx), each git diff under one of the faults.
ChangedProducts ==
  /\ call.fn = "none"
  /\ \E faults \in [DOMAIN catalog -> DiffFaults] :
       call' = [NoCall EXCEPT !.fn = "get_changed_products", !.arg = faults,
                              !.set = get_changed_products_under(state, faults)]
  /\ GraphFrame

ChangeNext == ChangedProducts

SpecChange == ChangeInit /\ [][ChangeNext]_vars

GraphNext == TopologicalSort \/ AffectedProducts \/ ValidateCircular

SpecGraph == GraphInit /\ [][GraphNext]_vars

=============================================================================
